---- MODULE Spec2Model ----
(***************************************************************************)
(* krlib: the kr-library synchronisation CLI (src/index.js).               *)
(*                                                                         *)
(* Strings are sequences of one-character strings, so that the regular     *)
(* expressions, String.length, padEnd and semver parsing of the source are *)
(* computed and not assumed.  null, undefined and "file absent" are the    *)
(* one-element sequences NULL, UNDEFINED and ABSENT, whose element is not  *)
(* a character.                                                            *)
(***************************************************************************)
EXTENDS Integers, Sequences, FiniteSets, TLC

\* ------------------------------------------------------------------ bounds
MaxComponents == 2
MaxTags == 2

\* --------------------------------------------------------- JS value helpers
NULL == <<"null">>
UNDEFINED == <<"undefined">>
ABSENT == <<"absent">>

Digits == {"0", "1", "2", "3", "4", "5", "6", "7", "8", "9"}

DigitVal(c) ==
    CASE c = "0" -> 0 [] c = "1" -> 1 [] c = "2" -> 2 [] c = "3" -> 3
      [] c = "4" -> 4 [] c = "5" -> 5 [] c = "6" -> 6 [] c = "7" -> 7
      [] c = "8" -> 8 [] c = "9" -> 9

IsString(s) == s \notin {NULL, UNDEFINED, ABSENT}

\* s.startsWith(p) at 1-based position i
MatchesAt(s, p, i) ==
    /\ i + Len(p) - 1 <= Len(s)
    /\ \A k \in 1..Len(p) : s[i + k - 1] = p[k]

\* number of characters of the class `class` that s has from position i on
RECURSIVE RunLen(_, _, _)
RunLen(s, class, i) ==
    IF i <= Len(s) /\ s[i] \in class THEN 1 + RunLen(s, class, i + 1) ELSE 0

\* length of the match of /[0-9]*\.[0-9]*\.[0-9]*/ anchored at position i of
\* s, or -1 when there is none (digits and '.' are disjoint: greedy matching
\* never backtracks)
VersionPatternAt(s, i) ==
    LET d1 == RunLen(s, Digits, i)
        p1 == i + d1
    IN  IF ~(p1 <= Len(s) /\ s[p1] = ".") THEN -1
        ELSE LET d2 == RunLen(s, Digits, p1 + 1)
                 p2 == p1 + 1 + d2
             IN  IF ~(p2 <= Len(s) /\ s[p2] = ".") THEN -1
                 ELSE d1 + 1 + d2 + 1 + RunLen(s, Digits, p2 + 1)

\* s.match(new RegExp(prefix + '[0-9]*\.[0-9]*\.[0-9]*', 'g')) with the
\* prefix removed from every match: the sequence of matches, left to right,
\* non-overlapping (<<>> stands for the null that match returns)
RECURSIVE MatchAllVersions(_, _, _)
MatchAllVersions(s, prefix, i) ==
    IF i > Len(s) THEN <<>>
    ELSE LET n == IF MatchesAt(s, prefix, i)
                  THEN VersionPatternAt(s, i + Len(prefix)) ELSE -1
         IN  IF n < 0 THEN MatchAllVersions(s, prefix, i + 1)
             ELSE <<SubSeq(s, i + Len(prefix), i + Len(prefix) + n - 1)>>
                  \o MatchAllVersions(s, prefix, i + Len(prefix) + n)

\* -------------------------------------------------------------- semver
\* value of a run of digits
RECURSIVE NumVal(_)
NumVal(ds) ==
    IF ds = <<>> THEN 0 ELSE 10 * NumVal(SubSeq(ds, 1, Len(ds) - 1)) + DigitVal(ds[Len(ds)])

\* a numeric identifier of semver: digits, no leading zero
IsNumeric(ds) ==
    /\ Len(ds) > 0
    /\ \A k \in 1..Len(ds) : ds[k] \in Digits
    /\ (Len(ds) > 1 => ds[1] # "0")

\* new SemVer(v) for the strings the tool meets (digits and dots): the
\* triple <<major, minor, patch>>, or <<>> where SemVer throws
\* TypeError('Invalid Version')
SemVerParse(v) ==
    IF ~IsString(v) THEN <<>>
    ELSE LET d1 == RunLen(v, Digits, 1)
             d2 == RunLen(v, Digits, d1 + 2)
             d3 == RunLen(v, Digits, d1 + d2 + 3)
             a == SubSeq(v, 1, d1)
             b == SubSeq(v, d1 + 2, d1 + 1 + d2)
             c == SubSeq(v, d1 + d2 + 3, d1 + d2 + 2 + d3)
         IN  IF /\ Len(v) = d1 + d2 + d3 + 2
                /\ v[d1 + 1] = "."
                /\ v[d1 + d2 + 2] = "."
                /\ IsNumeric(a) /\ IsNumeric(b) /\ IsNumeric(c)
             THEN <<NumVal(a), NumVal(b), NumVal(c)>>
             ELSE <<>>

SemVerValid(v) == SemVerParse(v) # <<>>

\* semver.compare(a, b) of two valid versions: -1, 0 or 1
SemVerCompare(a, b) ==
    LET x == SemVerParse(a)
        y == SemVerParse(b)
    IN  IF x[1] # y[1] THEN (IF x[1] < y[1] THEN -1 ELSE 1)
        ELSE IF x[2] # y[2] THEN (IF x[2] < y[2] THEN -1 ELSE 1)
        ELSE IF x[3] # y[3] THEN (IF x[3] < y[3] THEN -1 ELSE 1)
        ELSE 0

\* semver.lt(a, b) of two valid versions
SemVerLt(a, b) == SemVerCompare(a, b) < 0

\* semver.maxSatisfying(versions, '*'): the greatest valid version of the
\* list, NULL when the list has none
RECURSIVE MaxSatisfying(_)
MaxSatisfying(versions) ==
    IF versions = <<>> THEN NULL
    ELSE LET rest == MaxSatisfying(SubSeq(versions, 1, Len(versions) - 1))
             v == versions[Len(versions)]
         IN  IF ~SemVerValid(v) THEN rest
             ELSE IF rest = NULL \/ SemVerCompare(rest, v) = -1 THEN v
             ELSE rest


\* s.padEnd(n, ' ')
RECURSIVE Repeat(_, _)
Repeat(ch, n) == IF n <= 0 THEN <<>> ELSE <<ch>> \o Repeat(ch, n - 1)

padEnd(s, n) == s \o Repeat(" ", n - Len(s))

\* RegExp.test: the pattern occurs somewhere in s
Contains(s, p) == \E i \in 1..Len(s) : MatchesAt(s, p, i)

RECURSIVE SumSeq(_)
SumSeq(q) == IF q = <<>> THEN 0 ELSE q[1] + SumSeq(Tail(q))

RECURSIVE Flatten(_)
Flatten(q) == IF q = <<>> THEN <<>> ELSE q[1] \o Flatten(Tail(q))

\* the elements of the sequence q whose index is in S, in order
RECURSIVE Pick(_, _, _)
Pick(q, S, i) ==
    IF i > Len(q) THEN <<>>
    ELSE (IF i \in S THEN <<q[i]>> ELSE <<>>) \o Pick(q, S, i + 1)

\* ------------------------------------------------------------- Constant
MINIMUM_NPM_VERSION == <<"5", ".", "7", ".", "1">>
COMPONENT_PKG_FILE == "package.json"
KR_LIB_PKG_FILE == "node_modules/kr-library/package.json"
STAGGER_MS == 500

\* --------------------------------------------- the environment's samples
\* what `git remote get-url --push origin` prints (first line); GIT_ERROR
\* when the command fails
GIT_ERROR == <<"error">>
RemoteUrls == {<<"g", ":", "g", "c", "l", "e", "y", "s", "e", "r", "/", "k">>,
               <<"g", ":", "g", "c", "l", "e", "y", "s", "e", "/", "k">>,
               GIT_ERROR}

\* what `npm --version` prints
NpmVersions == {<<"5", ".", "7", ".", "0">>,
                <<"5", ".", "7", ".", "1">>,
                <<"5", ".", "1", "0", ".", "0">>}

\* tag names of the kr-library remote
TagPool == <<<<"v", "1", ".", "0", ".", "0">>,
             <<"v", "1", ".", "2", ".", "0">>,
             <<"v", "1", ".", "1", "0", ".", "0">>,
             <<"v", "2", ".", "0", ".", "0", "-", "r", "c", "1">>>>

\* the tag lists `git ls-remote --tags --refs` may report: at most MaxTags
\* tags of the pool (the empty list included)
TagLists ==
    {Pick(TagPool, S, 1) : S \in {T \in SUBSET (1..Len(TagPool)) : Cardinality(T) <= MaxTags}}

V100 == <<"1", ".", "0", ".", "0">>
V120 == <<"1", ".", "2", ".", "0">>

\* on-disk state of one component: lib is the version field of
\* node_modules/kr-library/package.json (ABSENT: no such file, UNDEFINED: the
\* file has no version field, <<>>: the field is ''), pin is the text that
\* follows '#semver:' in dependencies['kr-library'] of package.json (ABSENT:
\* no such dependency)
SampleDisk ==
    {[lib |-> ABSENT, pin |-> V100],
     [lib |-> V100, pin |-> V100],
     [lib |-> V100, pin |-> V120],
     [lib |-> <<>>, pin |-> V100],
     [lib |-> UNDEFINED, pin |-> V100]}

\* the keys of krlib.config.json's component map, in insertion order: the
\* i-th name is i letters long, so names are unique
ConfigName(i) == Repeat("c", i)

\* the lines a user may type at a prompt (without the line end)
Lines == {<<"y">>, <<"n">>, <<"x">>, <<"|">>, <<"y", "e", "s">>, <<"y", "n">>}


\* ------------------------------------------------------------- Utils
\* the argument of RegExp /gcleyser\// of checkLeyserkidsRepositoryAsync
OwnerPattern == <<"g", "c", "l", "e", "y", "s", "e", "r", "/">>

\* Utils.checkLeyserkidsRepositoryAsync: "throws" when git fails
checkLeyserkidsRepositoryAsync(url) ==
    IF url = GIT_ERROR THEN "throws"
    ELSE IF Contains(url, OwnerPattern) THEN "true" ELSE "false"

RefPrefix == <<"r", "e", "f", "s", "/", "t", "a", "g", "s", "/", "v">>

\* the output of `git ls-remote --tags --refs`: one line
\* '<sha>\trefs/tags/<name>' per tag
LsRemoteStdout(tags) ==
    Flatten([i \in 1..Len(tags) |-> <<"a", "\t">> \o <<"r", "e", "f", "s", "/", "t", "a", "g", "s", "/">> \o tags[i] \o <<"\n">>])

\* Utils.getLatestVersionAsync: the version, NULL when maxSatisfying finds
\* none, "throws" (as <<"throws">>) when match returns null
THROWS == <<"throws">>

getLatestVersionAsync(tags) ==
    LET matched == MatchAllVersions(LsRemoteStdout(tags), RefPrefix, 1)
    IN  IF matched = <<>> THEN THROWS ELSE MaxSatisfying(matched)

\* ------------------------------------------------------------- Component
\* Component._checkExist
checkExist(d) == d.lib # ABSENT

\* Component._getCurrentVersion
getCurrentVersion(d) == IF ~checkExist(d) THEN <<>> ELSE d.lib

\* Component._getExpectedVersion: '' without the dependency, THROWS when the
\* dependency has no '#semver:X.Y.Z' (match returns null)
getExpectedVersion(d) ==
    IF d.pin = ABSENT THEN <<>>
    ELSE LET matched == MatchAllVersions(<<"#", "s", "e", "m", "v", "e", "r", ":">> \o d.pin, <<"#", "s", "e", "m", "v", "e", "r", ":">>, 1)
         IN  IF matched = <<>> THEN THROWS ELSE matched[1]

\* Component.initialize
initialize(name, d) ==
    [componentName |-> name,
     exist |-> checkExist(d),
     currentVersion |-> getCurrentVersion(d),
     expectedVersion |-> getExpectedVersion(d)]

\* Component.setVersionAsync: the new on-disk state of the component
setVersionAsync(d, version) == [d EXCEPT !.pin = version]

\* ------------------------------------------ LeyserkidsComponentCollection
\* Constant.COMPONENT_DIRECTORIES: the keys of the config's component map
\* once run has merged the Environment into Constant, undefined before (the
\* plain Constant object has no such property)
COMPONENT_DIRECTORIES(constant, dsk) ==
    IF constant = "merged" THEN [i \in 1..Len(dsk) |-> ConfigName(i)] ELSE UNDEFINED

\* _initComponents over the on-disk states dsk, in the order of the config:
\* for-in over undefined iterates nothing
initComponents(componentsConfig, dsk) ==
    IF componentsConfig = UNDEFINED THEN <<>>
    ELSE [i \in 1..Len(componentsConfig) |-> initialize(componentsConfig[i], dsk[i])]

InitThrows(comps) == \E i \in 1..Len(comps) : comps[i].expectedVersion = THROWS

\* LeyserkidsComponentCollection.find: the index of the first component of
\* that name, 0 for undefined
find(comps, componentName) ==
    LET found == {i \in 1..Len(comps) : comps[i].componentName = componentName}
    IN  IF found = {} THEN 0 ELSE CHOOSE i \in found : \A j \in found : i <= j

Returned(value) == [outcome |-> "returned", value |-> value, error |-> ""]
Threw(error) == [outcome |-> "threw", value |-> 0, error |-> error]
Exited(code) == [outcome |-> "exited", value |-> code, error |-> ""]

\* Component.compareVersion of component c, whose manifests are d
compareVersion(c, d) ==
    IF ~checkExist(d) THEN Returned(-2)
    ELSE IF ~SemVerValid(c.currentVersion) \/ ~SemVerValid(c.expectedVersion)
    THEN Threw("TypeError")
    ELSE Returned(SemVerCompare(c.currentVersion, c.expectedVersion))

\* LeyserkidsComponentCollection.checkVersion: a new collection, find, and
\* compareVersion of what find returned
checkVersion(constant, dsk, componentName) ==
    LET comps == initComponents(COMPONENT_DIRECTORIES(constant, dsk), dsk)
        k == find(comps, componentName)
    IN  IF InitThrows(comps) THEN Threw("Error")
        ELSE IF k = 0 THEN Threw("TypeError")
        ELSE compareVersion(comps[k], dsk[k])

\* LeyserkidsComponentCollection.checkVersionWithAssert
checkVersionWithAssert(constant, dsk, componentName) ==
    LET r == checkVersion(constant, dsk, componentName)
    IN  IF r.outcome = "threw" THEN r
        ELSE IF r.value < 0 THEN Exited(1)
        ELSE Returned(0)


getUnInstalled(comps) == Pick(comps, {i \in 1..Len(comps) : ~comps[i].exist}, 1)

\* semver.lt throws on a version that is not valid
UnExpectedThrows(comps) ==
    \E i \in 1..Len(comps) :
        ~SemVerValid(comps[i].currentVersion) \/ ~SemVerValid(comps[i].expectedVersion)

getUnExpected(comps) ==
    Pick(comps, {i \in 1..Len(comps) :
                    SemVerLt(comps[i].currentVersion, comps[i].expectedVersion)}, 1)

UnLatestedThrows(comps, latest) ==
    \E i \in 1..Len(comps) :
        ~SemVerValid(comps[i].expectedVersion) \/ ~SemVerValid(latest)

getUnLatested(comps, latest) ==
    Pick(comps, {i \in 1..Len(comps) : SemVerLt(comps[i].expectedVersion, latest)}, 1)

\* installExpectAsync / installLatestAsync: what
\* installPackagesWithVersionAsync schedules, one install per component, the
\* i-th (0-based) on a timer of i * 500 ms; versions[i] is what
\* versionFinderFunc returns for the i-th component
installPackagesWithVersionAsync(componentArray, versions) ==
    [i \in 1..Len(componentArray) |->
        [componentName |-> componentArray[i].componentName,
         version |-> versions[i],
         due |-> (i - 1) * STAGGER_MS,
         st |-> "scheduled",
         code |-> -1]]

\* faulty variant: the version finder reads the installed version
installExpectAsync_CurrentVersion(componentArray) ==
    installPackagesWithVersionAsync(componentArray,
        [i \in 1..Len(componentArray) |-> componentArray[i].currentVersion])

installExpectAsync(componentArray) ==
    installPackagesWithVersionAsync(componentArray,
        [i \in 1..Len(componentArray) |-> componentArray[i].expectedVersion])

installLatestAsync(componentArray, latest) ==
    installPackagesWithVersionAsync(componentArray,
        [i \in 1..Len(componentArray) |-> latest])

\* faulty variant: the aggregate settles with the first install that finishes
BatchSettled_Race(batch) == \E i \in 1..Len(batch) : batch[i].st = "closed"

\* Promise.all of the batch: resolved once every install has seen 'close'
BatchSettled(batch) == \A i \in 1..Len(batch) : batch[i].st = "closed"

\* ------------------------------------------------------------ TableBuilder
HEADER_NAME == <<<<"M", "o", "d", "u", "l", "e">>,
                 <<"I", "n", "s", "t", "a", "l", "l", "e", "d">>,
                 <<"E", "x", "p", "e", "c", "t", "e", "d">>,
                 <<"L", "a", "t", "e", "s", "t">>>>

margin == <<" ", " ", " ", " ">>

\* the row object of readSourceDate / _computeLayout: its four cells in
\* `col` order
Row(texts) == [i \in 1..4 |-> [rawStr |-> texts[i], length |-> Len(texts[i])]]

\* TableBuilder.readSourceDate throws on a version that has no length
ReadThrows(comps, latest) ==
    \E i \in 1..Len(comps) : ~IsString(comps[i].currentVersion) \/ ~IsString(latest)

readSourceDate(comps, latest) ==
    [i \in 1..Len(comps) |->
        Row(<<comps[i].componentName, comps[i].currentVersion,
              comps[i].expectedVersion, latest>>)]

\* this.data after the unshift of _computeLayout
WithHeader(data) == <<Row(HEADER_NAME)>> \o data

Max(a, b) == IF a > b THEN a ELSE b

RECURSIVE ColMax(_, _)
ColMax(rows, i) ==
    IF rows = <<>> THEN 0 ELSE Max(ColMax(Tail(rows), i), rows[1][i].length)

\* cols of _computeLayout
Cols(data) == [i \in 1..4 |-> ColMax(WithHeader(data), i)]

\* col[i].str of every row, joined: the row as build prints it
RowStr(row, cols) == Flatten([i \in 1..4 |-> padEnd(row[i].rawStr, cols[i]) \o margin])

\* faulty variant: one margin per column
Width_EveryMargin(data) == SumSeq(Cols(data)) + Len(HEADER_NAME) * Len(margin)

\* this.width
Width(data) == SumSeq(Cols(data)) + (Len(HEADER_NAME) - 1) * Len(margin)

\* this.line
Line(data) == Repeat("-", Width(data))

\* TableBuilder.build: the reduce over this.data (header included)
RECURSIVE BuildRows(_, _, _, _)
BuildRows(rows, idx, cols, line) ==
    IF idx > Len(rows) THEN <<>>
    ELSE LET insert == IF idx = 1 THEN <<>>
                       ELSE IF idx = 2 THEN <<"\n">> \o line \o <<"\n">>
                       ELSE <<"\n">>
         IN  insert \o RowStr(rows[idx], cols) \o BuildRows(rows, idx + 1, cols, line)

build(data) == BuildRows(WithHeader(data), 1, Cols(data), Line(data))

\* the lines of a text
LineCount(text) == 1 + Cardinality({i \in 1..Len(text) : text[i] = "\n"})

RECURSIVE SplitLines(_)
SplitLines(text) ==
    LET n == RunLen(text, {text[k] : k \in 1..Len(text)} \ {"\n"}, 1)
    IN  IF n = Len(text) THEN <<text>>
        ELSE <<SubSeq(text, 1, n)>> \o SplitLines(SubSeq(text, n + 2, Len(text)))


\* --------------------------------------------------------------------- Cli
\* the alternatives every yes/no prompt passes: ['y', ['n']] joins like
\* ['y', 'n']
YesNo == <<<<"y">>, <<"n">>>>

\* expectedInputs.join('|')
RECURSIVE Join(_, _)
Join(q, sep) ==
    IF q = <<>> THEN <<>>
    ELSE IF Len(q) = 1 THEN q[1]
    ELSE q[1] \o <<sep>> \o Join(Tail(q), sep)

\* the character class of new RegExp(`[${expectedInputs.join('|')}]`, 'g')
Matcher(expectedInputs) ==
    LET j == Join(expectedInputs, "|") IN {j[k] : k \in 1..Len(j)}

\* data.match(matcher): every character of the class, in order (<<>> for null)
Match(data, class) == SelectSeq(data, LAMBDA ch : ch \in class)

\* the 'data' handler of getUserInputAsync applied to one line: the value
\* it resolves with, or "" when it warns 'Invalied input'
HandleData(line) ==
    LET matche == Match(line \o <<"\n">>, Matcher(YesNo))
    IN  IF matche # <<>> /\ Len(matche) = 1 THEN matche[1] ELSE ""

\* faulty variant: the comparison the other way round
checkNPMVersion_Reversed(v) ==
    IF ~SemVerValid(v) THEN "throws"
    ELSE IF SemVerLt(MINIMUM_NPM_VERSION, v) THEN "exit" ELSE "ok"

\* Cli.checkNPMVersion: "throws", "exit" or "ok"
checkNPMVersion(v) ==
    IF ~SemVerValid(v) THEN "throws"
    ELSE IF SemVerLt(v, MINIMUM_NPM_VERSION) THEN "exit" ELSE "ok"

\* what checkFullyInstalled / checkExpectedVersion / checkLatestVersion do
\* with the answer of their prompt: "install", "exit" or "continue"
AfterFullyInstalled(ipt) == IF ipt = "y" THEN "install" ELSE "exit"

\* faulty variant: the answer is not looked at
AfterExpectedVersion_Ignore(ipt) == "continue"

AfterExpectedVersion(ipt) == IF ipt = "y" THEN "install" ELSE "continue"

AfterLatestVersion(ipt) == IF ipt = "y" THEN "install" ELSE "continue"

VARIABLES
    remoteUrl,      \* output of git remote get-url --push origin
    npmVersion,     \* output of npm --version
    remoteTags,     \* tag names of the kr-library remote
    disk,           \* per configured component: [lib, pin]
    pc,             \* where Cli.run is
    exitCode,       \* argument of process.exit, -1 while none was called
    steps,          \* the steps of run entered so far
    latestVersion,  \* result of obtainLatestVersionAsync
    components,     \* this.pkgs.components
    table,          \* the text showInstalledStatus printed, <<>> before
    handlers,       \* number of 'data' listeners on process.stdin
    lastLine,       \* the last line stdin delivered
    lastWarnings,   \* 'Invalied input' warnings that line produced
    prompts,        \* the prompts of this run: [kind, line, ipt]
    installs,       \* the install batch: [componentName, version, due, st, code]
    now,            \* ms since the batch was scheduled
    Constant,       \* the global Constant: "plain", or "merged" with the Environment
    libCall         \* the last call through the module's export, <<>> if none

vars == <<remoteUrl, npmVersion, remoteTags, disk, pc, exitCode, steps,
          latestVersion, components, table, handlers, lastLine, lastWarnings,
          prompts, installs, now, Constant, libCall>>

envVars == <<remoteUrl, npmVersion, remoteTags>>
stdinVars == <<handlers, lastLine, lastWarnings, prompts>>
batchVars == <<installs, now>>

Init ==
    /\ remoteUrl \in RemoteUrls
    /\ npmVersion \in NpmVersions
    /\ remoteTags \in TagLists
    /\ \E n \in 0..MaxComponents : disk \in [1..n -> SampleDisk]
    /\ pc = "checkEnvironment"
    /\ exitCode = -1
    /\ steps = {}
    /\ latestVersion = NULL
    /\ components = <<>>
    /\ table = <<>>
    /\ handlers = 0
    /\ lastLine = <<>>
    /\ lastWarnings = 0
    /\ prompts = <<>>
    /\ installs = <<>>
    /\ now = 0
    /\ Constant = "plain"
    /\ libCall = <<>>

\* process.exit(code)
Exit(code) ==
    /\ pc' = "exited"
    /\ exitCode' = code

\* run: showLogo and checkEnvironmentAsync; an error ends in run's catch
CheckEnvironment ==
    /\ pc = "checkEnvironment"
    /\ steps' = steps \cup {"checkEnvironment"}
    /\ IF checkLeyserkidsRepositoryAsync(remoteUrl) = "true"
       THEN pc' = "checkNPMVersion" /\ UNCHANGED exitCode
       ELSE Exit(1)
    /\ UNCHANGED <<envVars, Constant, libCall, disk, latestVersion, components, table, stdinVars, batchVars>>

CheckNPMVersion ==
    /\ pc = "checkNPMVersion"
    /\ steps' = steps \cup {"checkNPMVersion"}
    /\ IF checkNPMVersion(npmVersion) = "ok"
       THEN pc' = "obtainLatestVersion" /\ UNCHANGED exitCode
       ELSE Exit(1)
    /\ UNCHANGED <<envVars, Constant, libCall, disk, latestVersion, components, table, stdinVars, batchVars>>

\* run: getGitRootDirectorySync, the Environment and obtainLatestVersionAsync
ObtainLatestVersion ==
    /\ pc = "obtainLatestVersion"
    /\ steps' = steps \cup {"obtainLatestVersion"}
    /\ LET version == getLatestVersionAsync(remoteTags)
       IN  IF version = THROWS
           THEN Exit(1) /\ UNCHANGED latestVersion
           ELSE /\ latestVersion' = version
                /\ pc' = "discover"
                /\ UNCHANGED exitCode
    /\ Constant' = "merged"
    /\ UNCHANGED <<envVars, libCall, disk, components, table, stdinVars, batchVars>>

\* run: new LeyserkidsComponentCollection and showInstalledStatus
Discover ==
    /\ pc = "discover"
    /\ steps' = steps \cup {"discover"}
    /\ LET comps == initComponents(COMPONENT_DIRECTORIES(Constant, disk), disk)
       IN  IF InitThrows(comps)
           THEN Exit(1) /\ UNCHANGED <<components, table>>
           ELSE /\ components' = comps
                /\ IF ReadThrows(comps, latestVersion)
                   THEN Exit(1) /\ UNCHANGED table
                   ELSE /\ table' = build(readSourceDate(comps, latestVersion))
                        /\ pc' = "checkFullyInstalled"
                        /\ UNCHANGED exitCode
    /\ UNCHANGED <<envVars, Constant, libCall, disk, latestVersion, stdinVars, batchVars>>

\* getUserInputAsync up to the promise it returns: one more 'data' listener
Prompt(kind) ==
    /\ handlers' = handlers + 1
    /\ prompts' = Append(prompts, [kind |-> kind, line |-> <<>>, ipt |-> ""])
    /\ pc' = "prompt"
    /\ UNCHANGED <<lastLine, lastWarnings>>

CheckFullyInstalled ==
    /\ pc = "checkFullyInstalled"
    /\ steps' = steps \cup {"checkFullyInstalled"}
    /\ IF Len(getUnInstalled(components)) > 0
       THEN Prompt("checkFullyInstalled")
       ELSE pc' = "checkExpectedVersion" /\ UNCHANGED stdinVars
    /\ UNCHANGED <<envVars, Constant, libCall, disk, exitCode, latestVersion, components, table, batchVars>>

CheckExpectedVersion ==
    /\ pc = "checkExpectedVersion"
    /\ steps' = steps \cup {"checkExpectedVersion"}
    /\ IF UnExpectedThrows(components)
       THEN Exit(1) /\ UNCHANGED stdinVars
       ELSE /\ UNCHANGED exitCode
            /\ IF Len(getUnExpected(components)) > 0
               THEN Prompt("checkExpectedVersion")
               ELSE pc' = "checkLatestVersion" /\ UNCHANGED stdinVars
    /\ UNCHANGED <<envVars, Constant, libCall, disk, latestVersion, components, table, batchVars>>

CheckLatestVersion ==
    /\ pc = "checkLatestVersion"
    /\ steps' = steps \cup {"checkLatestVersion"}
    /\ IF UnLatestedThrows(components, latestVersion)
       THEN Exit(1) /\ UNCHANGED stdinVars
       ELSE /\ UNCHANGED exitCode
            /\ IF Len(getUnLatested(components, latestVersion)) > 0
               THEN Prompt("checkLatestVersion")
               ELSE pc' = "finished" /\ UNCHANGED stdinVars
    /\ UNCHANGED <<envVars, Constant, libCall, disk, latestVersion, components, table, batchVars>>

\* the prompt that is waiting
Pending == prompts[Len(prompts)]

\* the batch the waiting prompt installs on 'y'
BatchOf(kind) ==
    IF kind = "checkFullyInstalled" THEN installExpectAsync(getUnInstalled(components))
    ELSE IF kind = "checkExpectedVersion" THEN installExpectAsync(getUnExpected(components))
    ELSE installLatestAsync(getUnLatested(components, latestVersion), latestVersion)

AfterPrompt(kind, ipt) ==
    IF kind = "checkFullyInstalled" THEN AfterFullyInstalled(ipt)
    ELSE IF kind = "checkExpectedVersion" THEN AfterExpectedVersion(ipt)
    ELSE AfterLatestVersion(ipt)

\* stdin delivers one line: every registered 'data' listener handles it, and
\* when the waiting prompt resolves, its check... method goes on
StdinData(line) ==
    /\ pc = "prompt"
    /\ lastLine' = line
    /\ LET ipt == HandleData(line)
           kind == Pending.kind
       IN  IF ipt = ""
           THEN /\ lastWarnings' = handlers
                /\ UNCHANGED <<pc, exitCode, prompts, steps, installs>>
           ELSE /\ lastWarnings' = 0
                /\ prompts' = [prompts EXCEPT ![Len(prompts)] =
                                  [kind |-> kind, line |-> line, ipt |-> ipt]]
                /\ CASE AfterPrompt(kind, ipt) = "install" ->
                          /\ installs' = BatchOf(kind)
                          /\ pc' = "installing"
                          /\ steps' = steps \cup {"install"}
                          /\ UNCHANGED exitCode
                     [] AfterPrompt(kind, ipt) = "exit" ->
                          /\ Exit(0)
                          /\ UNCHANGED <<steps, installs>>
                     [] OTHER ->
                          /\ pc' = IF kind = "checkExpectedVersion"
                                   THEN "checkLatestVersion" ELSE "finished"
                          /\ UNCHANGED <<exitCode, steps, installs>>
    /\ UNCHANGED <<envVars, Constant, libCall, disk, latestVersion, components, table, handlers, now>>

\* time passes while the batch runs (no timer is due later than the last)
Tick ==
    /\ pc = "installing"
    /\ now < installs[Len(installs)].due
    /\ now' = now + STAGGER_MS
    /\ UNCHANGED <<envVars, Constant, libCall, disk, pc, exitCode, steps, latestVersion, components,
                   table, stdinVars, installs>>

\* the setTimeout callback of install i: installSpecificVersionAsync spawns
\* npm install; timers run in the order they fall due
TimerFire(i) ==
    /\ pc = "installing"
    /\ installs[i].st = "scheduled"
    /\ installs[i].due <= now
    /\ \A j \in 1..Len(installs) :
          installs[j].due < installs[i].due => installs[j].st # "scheduled"
    /\ installs' = [installs EXCEPT ![i].st = "running"]
    /\ UNCHANGED <<envVars, Constant, libCall, disk, pc, exitCode, steps, latestVersion, components,
                   table, stdinVars, now>>

\* what npm leaves on disk: a successful install puts the library there and
\* saves the dependency, a failed one changes nothing
NpmEffect(d, version, code) ==
    IF code = 0 THEN [lib |-> version, pin |-> version] ELSE d

\* the 'close' event of install i with its exit code: the result is logged
InstallClose(i, code) ==
    /\ pc = "installing"
    /\ installs[i].st = "running"
    /\ installs' = [installs EXCEPT ![i].st = "closed", ![i].code = code]
    /\ LET c == CHOOSE k \in 1..Len(disk) : ConfigName(k) = installs[i].componentName
       IN  disk' = [disk EXCEPT ![c] = NpmEffect(disk[c], installs[i].version, code)]
    /\ UNCHANGED <<envVars, Constant, libCall, pc, exitCode, steps, latestVersion, components,
                   table, stdinVars, now>>

\* Promise.all resolves, the check... method calls process.exit(0)
BatchResolved ==
    /\ pc = "installing"
    /\ BatchSettled(installs)
    /\ Exit(0)
    /\ UNCHANGED <<envVars, Constant, libCall, disk, steps, latestVersion, components, table,
                   stdinVars, batchVars>>

ExitCodes == {0, 1}

Next ==
    \/ CheckEnvironment
    \/ CheckNPMVersion
    \/ ObtainLatestVersion
    \/ Discover
    \/ CheckFullyInstalled
    \/ CheckExpectedVersion
    \/ CheckLatestVersion
    \/ \E line \in Lines : StdinData(line)
    \/ Tick
    \/ \E i \in 1..Len(installs) : TimerFire(i)
    \/ \E i \in 1..Len(installs), code \in ExitCodes : InstallClose(i, code)
    \/ BatchResolved

Spec == Init /\ [][Next]_vars

\* ------------------------------------------- the module used as a library
\* a program requires the module (Cli.run does not start: require.main is
\* not the module) and calls the static methods of the export
LibInit ==
    /\ remoteUrl = GIT_ERROR
    /\ npmVersion = MINIMUM_NPM_VERSION
    /\ remoteTags = <<>>
    /\ \E n \in 0..MaxComponents : disk \in [1..n -> SampleDisk]
    /\ pc = "library"
    /\ exitCode = -1
    /\ steps = {}
    /\ latestVersion = UNDEFINED
    /\ components = <<>>
    /\ table = <<>>
    /\ handlers = 0
    /\ lastLine = <<>>
    /\ lastWarnings = 0
    /\ prompts = <<>>
    /\ installs = <<>>
    /\ now = 0
    /\ Constant = "plain"
    /\ libCall = <<>>

LibCall(fn, componentName, r) ==
    /\ libCall' = [fn |-> fn, componentName |-> componentName, result |-> r]
    /\ IF r.outcome = "exited" THEN Exit(r.value) ELSE UNCHANGED <<pc, exitCode>>
    /\ UNCHANGED <<envVars, Constant, disk, steps, latestVersion, components, table,
                   stdinVars, batchVars>>

CheckVersion(componentName) ==
    /\ pc = "library"
    /\ LibCall("checkVersion", componentName, checkVersion(Constant, disk, componentName))

CheckVersionWithAssert(componentName) ==
    /\ pc = "library"
    /\ LibCall("checkVersionWithAssert", componentName,
               checkVersionWithAssert(Constant, disk, componentName))

\* the names a caller asks about: the first MaxComponents config names
LibNames == {ConfigName(i) : i \in 1..MaxComponents}

LibNext ==
    \/ \E componentName \in LibNames : CheckVersion(componentName)
    \/ \E componentName \in LibNames : CheckVersionWithAssert(componentName)

LibSpec == LibInit /\ [][LibNext]_vars

TypeOK ==
    /\ pc \in {"checkEnvironment", "checkNPMVersion", "obtainLatestVersion", "discover",
               "checkFullyInstalled", "checkExpectedVersion", "checkLatestVersion",
               "prompt", "installing", "finished", "exited", "library"}
    /\ exitCode \in {-1, 0, 1}
    /\ handlers \in 0..3
    /\ Len(installs) <= Len(components)


\* ------------------------------------------------------------------ claims
HasPrompt(kind) == \E i \in 1..Len(prompts) : prompts[i].kind = kind

Answered(kind, ipt) ==
    \E i \in 1..Len(prompts) : prompts[i].kind = kind /\ prompts[i].ipt = ipt

LatestBatch ==
    /\ installs # <<>>
    /\ prompts[Len(prompts)].kind = "checkLatestVersion"

\* C1 (as stated): ReconcileLatest (the checkLatestVersion prompt or an
\* install at the latest version) happens only in runs where
\* checkExpectedVersion found no outdated component, that is, never after
\* the checkExpectedVersion prompt.
C1_OnlyIfNothingOutdated ==
    (HasPrompt("checkLatestVersion") \/ LatestBatch) => ~HasPrompt("checkExpectedVersion")

\* C1 (amended): checkLatestVersion is entered, prompts or installs only if
\* checkExpectedVersion found no outdated component or its prompt was
\* answered with something other than 'y'; after 'y' at the
\* checkExpectedVersion prompt the run never enters checkLatestVersion.
C1_OnlyIfNotConfirmed ==
    /\ ("checkLatestVersion" \in steps \/ HasPrompt("checkLatestVersion") \/ LatestBatch)
          => ~Answered("checkExpectedVersion", "y")
    /\ Answered("checkExpectedVersion", "y") =>
          /\ pc \in {"installing", "exited"}
          /\ prompts[Len(prompts)].kind = "checkExpectedVersion"

\* C1 witness: the checkLatestVersion prompt after a declined
\* checkExpectedVersion prompt
C1_Witness ==
    /\ Len(prompts) = 2
    /\ prompts[1].kind = "checkExpectedVersion" /\ prompts[1].ipt = "n"
    /\ prompts[2].kind = "checkLatestVersion" /\ prompts[2].ipt = "y"
    /\ pc = "exited"

FullyConfirmed ==
    /\ Len(prompts) >= 1
    /\ prompts[1].kind = "checkFullyInstalled"
    /\ prompts[1].ipt = "y"

\* C2: after 'y' at the checkFullyInstalled prompt the batch is exactly the
\* components with exist = FALSE, each at its own expectedVersion; the run
\* exits with code 0 once the whole batch has finished, and never enters
\* checkExpectedVersion or checkLatestVersion, prompts again or starts a
\* second batch.
C2_InstallUninstalledThenExit ==
    FullyConfirmed =>
        /\ Len(prompts) = 1
        /\ pc \in {"installing", "exited"}
        /\ steps \cap {"checkExpectedVersion", "checkLatestVersion"} = {}
        /\ {installs[i].componentName : i \in 1..Len(installs)}
              = {components[k].componentName :
                     k \in {j \in 1..Len(components) : ~components[j].exist}}
        /\ \A i, j \in 1..Len(installs) :
              installs[i].componentName = installs[j].componentName => i = j
        /\ \A i \in 1..Len(installs) : \E k \in 1..Len(components) :
              /\ components[k].componentName = installs[i].componentName
              /\ installs[i].version = components[k].expectedVersion
        /\ pc = "exited" =>
              /\ exitCode = 0
              /\ \A i \in 1..Len(installs) : installs[i].st = "closed"

\* C2 witness: one component was never installed, the other is installed
\* but outdated; the batch of the one has finished and the run has exited
C2_Witness ==
    /\ FullyConfirmed
    /\ pc = "exited"
    /\ Len(components) = 2
    /\ Len(installs) = 1
    /\ \E k \in 1..2 :
          /\ components[k].exist
          /\ components[k].currentVersion = V100
          /\ components[k].expectedVersion = V120

\* C3 (as stated): a yes/no prompt resolves only with 'y' or 'n', and only
\* for the input line 'y' or 'n'; every other line is rejected.
C3_OnlyYesOrNo ==
    \A i \in 1..Len(prompts) :
        prompts[i].ipt # "" =>
            /\ prompts[i].ipt \in {"y", "n"}
            /\ prompts[i].line = <<prompts[i].ipt>>

\* C4: the installs of a batch start in index order, install i not before
\* i * 500 ms, whatever the exit codes of the others; the batch settles, and
\* the run exits with code 0, only when every install has been started and
\* has seen 'close', also when some exit code is not 0; until then the batch
\* can go on.
C4_AllStartedAllFinished ==
    /\ \A i \in 1..Len(installs) :
          installs[i].st # "scheduled" =>
              /\ now >= (i - 1) * 500
              /\ \A j \in 1..(i - 1) : installs[j].st # "scheduled"
    /\ (pc = "exited" /\ installs # <<>>) =>
          /\ exitCode = 0
          /\ \A i \in 1..Len(installs) :
                installs[i].st = "closed" /\ installs[i].code \in ExitCodes
    /\ pc = "installing" =>
          ENABLED (\/ Tick
                   \/ \E i \in 1..Len(installs) : TimerFire(i)
                   \/ \E i \in 1..Len(installs), code \in ExitCodes : InstallClose(i, code)
                   \/ BatchResolved)

\* C4 witness: the first install of a batch of two failed, the second was
\* still started and succeeded, and the run has exited
C4_Witness ==
    /\ pc = "exited"
    /\ Len(installs) = 2
    /\ installs[1].st = "closed" /\ installs[1].code = 1
    /\ installs[2].st = "closed" /\ installs[2].code = 0


\* C5 (as stated): a discovered component whose installed version is the
\* empty string is returned by getUnInstalled; equivalently a component with
\* exist = TRUE has a non-empty installed version.
C5_EmptyVersionIsUninstalled ==
    \A k \in 1..Len(components) :
        /\ components[k].currentVersion = <<>> =>
              \E j \in 1..Len(getUnInstalled(components)) :
                  getUnInstalled(components)[j].componentName = components[k].componentName
        /\ components[k].exist =>
              (IsString(components[k].currentVersion) /\ components[k].currentVersion # <<>>)

\* showInstalledStatus has printed the table (build never returns '')
Printed == table # <<>>

\* C6 (as stated): the printed table has n + 2 lines for n components: the
\* header, the dashed separator, then the components in discovery order,
\* also when n = 0.
C6_HeaderSeparatorRows ==
    Printed =>
        LET ls == SplitLines(table)
        IN  /\ LineCount(table) = Len(components) + 2
            /\ Len(ls) = Len(components) + 2
            /\ MatchesAt(ls[1], HEADER_NAME[1], 1)
            /\ Len(ls[2]) > 0
            /\ \A k \in 1..Len(ls[2]) : ls[2][k] = "-"
            /\ \A k \in 1..Len(components) :
                  MatchesAt(ls[k + 2], components[k].componentName \o <<" ">>, 1)

\* the tags whose name is exactly vX.Y.Z, without the v
ExactTagVersions ==
    {Tail(remoteTags[i]) : i \in {j \in 1..Len(remoteTags) :
        /\ remoteTags[j][1] = "v"
        /\ SemVerValid(Tail(remoteTags[j]))}}

\* C7 (as stated): for a non-empty tag list the latest version is the
\* greatest, by numeric comparison of major, minor and patch, of the tags
\* named exactly vX.Y.Z, so it is the version of an existing tag.
C7_LatestIsGreatestExactTag ==
    ("obtainLatestVersion" \in steps /\ remoteTags # <<>> /\ ExactTagVersions # {}) =>
        /\ latestVersion \in ExactTagVersions
        /\ \A v \in ExactTagVersions :
              LET a == SemVerParse(v)
                  b == SemVerParse(latestVersion)
              IN  \/ a[1] < b[1]
                  \/ a[1] = b[1] /\ a[2] < b[2]
                  \/ a[1] = b[1] /\ a[2] = b[2] /\ a[3] <= b[3]

UrlMismatch == ~Contains(remoteUrl, <<"g", "c", "l", "e", "y", "s", "e", "r", "/">>)

NpmTooOld ==
    LET v == SemVerParse(npmVersion)
    IN  v[1] < 5 \/ (v[1] = 5 /\ v[2] < 7) \/ (v[1] = 5 /\ v[2] = 7 /\ v[3] < 1)

\* C8: with a push remote that does not match the owner pattern, or an npm
\* older than 5.7.1, the run ends in EnvironmentCheck with exit code 1: no
\* tag query, no discovery, no table, no prompt and no install.
C8_FatalEnvironmentCheck ==
    (UrlMismatch \/ NpmTooOld) =>
        /\ pc \in {"checkEnvironment", "checkNPMVersion", "exited"}
        /\ pc = "exited" => exitCode = 1
        /\ UrlMismatch => pc # "checkNPMVersion"
        /\ steps \subseteq {"checkEnvironment", "checkNPMVersion"}
        /\ latestVersion = NULL
        /\ components = <<>>
        /\ table = <<>>
        /\ prompts = <<>>
        /\ handlers = 0
        /\ installs = <<>>

\* C8 witness: the repository is the expected one, npm is 5.7.0, and the
\* run has exited with code 1 from checkNPMVersion
C8_Witness ==
    /\ ~UrlMismatch
    /\ NpmTooOld
    /\ pc = "exited"
    /\ exitCode = 1
    /\ steps = {"checkEnvironment", "checkNPMVersion"}

\* C9 (as stated): when an install at version V ends with a non-zero exit
\* code, the component's package.json pins '#semver:V'.
C9_FailedInstallLeavesPin ==
    \A i \in 1..Len(installs) :
        (installs[i].st = "closed" /\ installs[i].code # 0) =>
            \E k \in 1..Len(disk) :
                /\ ConfigName(k) = installs[i].componentName
                /\ disk[k].pin = installs[i].version

\* C10 (as stated): the separator line is as long as the rendered header
\* row and as every rendered component row.
C10_SeparatorAsLongAsRows ==
    Printed =>
        LET data == readSourceDate(components, latestVersion)
            ls == SplitLines(table)
        IN  \A k \in 1..Len(ls) : Len(ls[k]) = Len(Line(data))

\* longest text of column i: the header's or a component's
TextWidth(i) ==
    LET texts == {HEADER_NAME[i]} \cup
                 {<<components[k].componentName, components[k].currentVersion,
                    components[k].expectedVersion, latestVersion>>[i] :
                      k \in 1..Len(components)}
    IN  CHOOSE w \in {Len(t) : t \in texts} : \A t \in texts : Len(t) <= w

\* C10 (amended): the separator line is as long as the four column text
\* widths plus the three margins between them; every rendered row, header
\* included, has one more margin, the trailing one, and so is 4 longer than
\* the separator; the separator printed is that line.
C10_SeparatorWithoutTrailingMargin ==
    Printed =>
        LET data == readSourceDate(components, latestVersion)
            ls == SplitLines(table)
        IN  /\ Len(Line(data)) = TextWidth(1) + TextWidth(2) + TextWidth(3) + TextWidth(4) + 12
            /\ \A k \in 1..Len(ls) :
                  IF k = 2 THEN ls[k] = Line(data)
                  ELSE Len(ls[k]) = Len(Line(data)) + 4

\* C10 witness: the printed table of two components: header, separator
\* and two rows
C10_Witness ==
    /\ Printed
    /\ Len(components) = 2
    /\ Len(SplitLines(table)) = 4


\* C12 (as stated): at any time at most one 'data' listener is active on
\* stdin, so every line is handled by one prompt only and an invalid line
\* produces exactly one 'Invalied input' warning, also at the second prompt
\* of a run.
C12_OneListenerOneWarning ==
    /\ handlers <= 1
    /\ (lastLine # <<>> /\ HandleData(lastLine) = "") => lastWarnings = 1
    /\ (lastLine # <<>> /\ HandleData(lastLine) # "") => lastWarnings = 0


\* the component the last library call asked about is configured and its
\* manifests are valid
LibCallConfiguredValid ==
    /\ libCall # <<>>
    /\ \E k \in 1..Len(disk) :
          /\ ConfigName(k) = libCall.componentName
          /\ disk[k].lib = ABSENT \/ SemVerValid(disk[k].lib)
          /\ SemVerValid(disk[k].pin)

\* what the claim expects of checkVersion for the component of the last call
LibExpected ==
    LET k == CHOOSE i \in 1..Len(disk) : ConfigName(i) = libCall.componentName
        a == SemVerParse(disk[k].lib)
        b == SemVerParse(disk[k].pin)
    IN  IF disk[k].lib = ABSENT THEN -2
        ELSE IF a = b THEN 0
        ELSE IF \/ a[1] < b[1]
                \/ a[1] = b[1] /\ a[2] < b[2]
                \/ a[1] = b[1] /\ a[2] = b[2] /\ a[3] < b[3] THEN -1
        ELSE 1

\* C11 (as stated): through the export, with Cli.run never executed,
\* checkVersion of a configured component with valid manifests returns -2
\* when kr-library is not installed there and else the comparison of
\* installed against expected; checkVersionWithAssert exits with code 1
\* exactly when that is negative and else returns; neither throws.
C11_LibraryCheckVersion ==
    LibCallConfiguredValid =>
        /\ libCall.result.outcome # "threw"
        /\ libCall.fn = "checkVersion" =>
              libCall.result = [outcome |-> "returned", value |-> LibExpected, error |-> ""]
        /\ libCall.fn = "checkVersionWithAssert" =>
              IF LibExpected < 0
              THEN libCall.result.outcome = "exited" /\ pc = "exited" /\ exitCode = 1
              ELSE libCall.result.outcome = "returned" /\ pc = "library"

====
